---- MODULE Spec2Model ----
(***************************************************************************)
(* Four hash sets sharing one contract: HashSetSequential,                 *)
(* HashSetCoarseGrained, HashSetStriped and HashSetRefinable.              *)
(* One state machine; the variable `variant` says which class the set is.  *)
(* Every thread runs a finite sequence of Add / Remove / Contains calls;   *)
(* each call is cut at the points where it touches shared state.           *)
(***************************************************************************)
EXTENDS Integers, Sequences, FiniteSets, TLC

\* ------------------------------------------------------------------ bounds
MaxThreads == 2
MaxCalls == 3
MaxCap == 2
ExtraAny == 1
ExtraAdds == 3

\* ------------------------------------------------------- program constants
LoadFactor == 4
Growth == 2

Threads == 1..MaxThreads
Variants == {"sequential", "coarse", "striped", "refinable"}
OpNames == {"add", "remove", "contains"}
Workloads == {"any", "adds", "few"}
Capacities == 1..MaxCap
\* the arguments the calls draw from: the prefilled elements and a few more;
\* the workload "few" contends for two present elements of different buckets
\* and one absent element
Elems(c, w) ==
  IF w = "few" THEN {0, 1, LoadFactor * c}
  ELSE 0..(LoadFactor * c + (IF w = "adds" THEN ExtraAdds ELSE ExtraAny) - 1)
AllElems == Elems(MaxCap, "any") \cup Elems(MaxCap, "adds")
OpsOf(w) == IF w = "adds" THEN {"add"} ELSE OpNames
NoThread == 0
\* a call that has not searched its bucket yet holds no result: the slot is
\* read only after the search (Got), so its idle value is never observed
NoResult == FALSE

VARIABLES
  variant,           \* which of the four classes this object is
  initial_capacity,  \* the constructor's argument
  prefill,           \* number of Add calls thread 1 completed before the others start
  workload,          \* which calls the threads issue: any, or Add only
  table,             \* table_: sequence of buckets, bucket b is table[b + 1]
  capacity,          \* capacity_
  size,              \* size_
  mutex,             \* HashSetCoarseGrained::mutex_ : owner or NoThread
  mutexes,           \* mutexes_ of the striped / refinable set: owner per index (1-based)
  mutex_count,       \* HashSetStriped::mutex_count_
  readers,           \* resize_mutex_: threads holding it in shared mode
  writer,            \* resize_mutex_: thread holding it exclusively, or NoThread
  pc,                \* position of each thread inside its current call
  op,                \* the call a thread is in
  elem,              \* its argument
  res,               \* the value the call is going to return
  sz,                \* the value loaded from size_ for the threshold test
  old_capacity,      \* resize()'s local old_capacity
  idx,               \* ArrayLock's loop index i
  held,              \* index of the bucket / stripe mutex the thread's scoped_lock owns
  calls,             \* calls each thread has issued so far
  oracle,            \* a HashSetSequential given the same calls in lock acquisition order
  expect,            \* what the oracle returned for the thread's current call
  agree,             \* every result so far equals the oracle's
  added              \* the elements Add has been called with, the prefilled ones included

shared == <<table, capacity, size, mutex, mutexes, mutex_count, readers, writer>>
config == <<variant, initial_capacity, prefill, workload>>
ghost == <<oracle, expect, agree>>
inputs == <<calls, added>>
vars == <<variant, initial_capacity, prefill, workload, table, capacity, size, mutex,
          mutexes, mutex_count, readers, writer, pc, op, elem, res, sz, old_capacity,
          idx, held, calls, oracle, expect, agree, added>>

\* ----------------------------------------------------------- pure helpers
\* std::hash<T>()(elem) for an integral T: the standard libraries in use return
\* the value itself, so bucket and stripe are elem mod capacity / mutex_count
Hash(e) == e

\* std::vector<std::vector<T>>(n, std::vector<T>())
RECURSIVE NewTable(_)
NewTable(n) == IF n = 0 THEN <<>> ELSE Append(NewTable(n - 1), <<>>)

\* std::find(bucket.begin(), bucket.end(), elem) != bucket.end()
Found(bucket, e) == \E i \in 1..Len(bucket) : bucket[i] = e

\* position std::find returns (first match), 0 when there is none
FindPos(bucket, e) ==
  IF Found(bucket, e)
  THEN CHOOSE i \in 1..Len(bucket) :
         bucket[i] = e /\ \A j \in 1..(i - 1) : bucket[j] # e
  ELSE 0

\* bucket.erase(it)
EraseAt(bucket, i) == SubSeq(bucket, 1, i - 1) \o SubSeq(bucket, i + 1, Len(bucket))

\* table_[b].push_back(e)
PushBack(tb, b, e) == [tb EXCEPT ![b + 1] = Append(@, e)]

\* table_[b].erase(std::find(...))
EraseFrom(tb, b, e) == [tb EXCEPT ![b + 1] = EraseAt(@, FindPos(@, e))]

\* the elements of a table in iteration order: buckets in order, each front to back
RECURSIVE FlattenUpTo(_, _)
FlattenUpTo(tb, n) == IF n = 0 THEN <<>> ELSE FlattenUpTo(tb, n - 1) \o tb[n]
Flatten(tb) == FlattenUpTo(tb, Len(tb))

\* the rehash loop: every element is pushed to new_table[hash % capacity_]
RECURSIVE MoveAll(_, _, _, _)
MoveAll(es, i, nt, cap) ==
  IF i > Len(es) THEN nt
  ELSE MoveAll(es, i + 1, PushBack(nt, Hash(es[i]) % cap, es[i]), cap)

\* Rehash placing the elements modulo the old number of buckets
RehashBuggyOldCap(tb, cap) == MoveAll(Flatten(tb), 1, NewTable(cap), Len(tb))
Rehash(tb, cap) == MoveAll(Flatten(tb), 1, NewTable(cap), cap)

\* n unlocked mutexes: new std::mutex[n], n times std::make_unique<std::mutex>()
RECURSIVE NewLocks(_)
NewLocks(n) == IF n = 0 THEN <<>> ELSE Append(NewLocks(n - 1), NoThread)

\* the load-factor test size_ > 4 * capacity_
OverLoaded(s, cap) == s > LoadFactor * cap

Range(s) == {s[i] : i \in 1..Len(s)}
Contents(tb) == Range(Flatten(tb))
Entries(tb) == Len(Flatten(tb))

\* ------------------------------------------- HashSetSequential as functions
\* A sequential set is a record [table, capacity, size]; each call maps it to
\* [set, result].
SeqNew(c) == [table |-> NewTable(c), capacity |-> c, size |-> 0]

SeqAdd(s, e) ==
  LET h == Hash(e) % s.capacity IN
  IF Found(s.table[h + 1], e)
  THEN [set |-> s, result |-> FALSE]
  ELSE LET t1 == PushBack(s.table, h, e)
           n1 == s.size + 1
       IN IF OverLoaded(n1, s.capacity)
          THEN [set |-> [table |-> Rehash(t1, s.capacity * Growth),
                         capacity |-> s.capacity * Growth, size |-> n1],
                result |-> TRUE]
          ELSE [set |-> [table |-> t1, capacity |-> s.capacity, size |-> n1],
                result |-> TRUE]

SeqRemove(s, e) ==
  LET h == Hash(e) % s.capacity IN
  IF ~Found(s.table[h + 1], e)
  THEN [set |-> s, result |-> FALSE]
  ELSE [set |-> [table |-> EraseFrom(s.table, h, e),
                 capacity |-> s.capacity, size |-> s.size - 1],
        result |-> TRUE]

SeqContains(s, e) ==
  LET h == Hash(e) % s.capacity IN
  [set |-> s, result |-> Found(s.table[h + 1], e)]

SeqApply(s, o, e) ==
  CASE o = "add" -> SeqAdd(s, e)
    [] o = "remove" -> SeqRemove(s, e)
    [] OTHER -> SeqContains(s, e)

\* the set after thread 1 added 0 .. k-1 one after the other
RECURSIVE Prefilled(_, _)
Prefilled(c, k) == IF k = 0 THEN SeqNew(c) ELSE SeqAdd(Prefilled(c, k - 1), k - 1).set


\* --------------------------------------------------------------- initial
\* The constructor, followed by `prefill` Add calls of thread 1 that stay
\* below the load factor (no variant resizes during them).
InitState(w) ==
  /\ workload = w
  /\ variant \in Variants
  /\ initial_capacity \in Capacities
  /\ prefill \in {0, LoadFactor * initial_capacity}
  /\ table = Prefilled(initial_capacity, prefill).table
  /\ capacity = initial_capacity
  /\ size = prefill
  /\ mutex = NoThread
  /\ mutexes = IF variant \in {"striped", "refinable"}
               THEN NewLocks(initial_capacity) ELSE <<>>
  /\ mutex_count = IF variant = "striped" THEN initial_capacity ELSE 0
  /\ readers = {}
  /\ writer = NoThread
  /\ pc = [t \in Threads |-> "idle"]
  /\ op = [t \in Threads |-> "none"]
  /\ elem = [t \in Threads |-> 0]
  /\ res = [t \in Threads |-> NoResult]
  /\ sz = [t \in Threads |-> 0]
  /\ old_capacity = [t \in Threads |-> 0]
  /\ idx = [t \in Threads |-> 0]
  /\ held = [t \in Threads |-> 0]
  /\ calls = [t \in Threads |-> 0]
  /\ oracle = Prefilled(initial_capacity, prefill)
  /\ expect = [t \in Threads |-> NoResult]
  /\ agree = TRUE
  /\ added = 0..(prefill - 1)

Init == InitState("any")
InitAdds == InitState("adds")

RECURSIVE SumCalls(_)
SumCalls(n) == IF n = 0 THEN 0 ELSE calls[n] + SumCalls(n - 1)
CallsIssued == SumCalls(MaxThreads)

\* ------------------------------------------------------ shared step parts
Goto(t, l) == pc' = [pc EXCEPT ![t] = l]

\* the call enters its critical section: the oracle is given the same call
OrderedAs(t, o, e) ==
  /\ oracle' = SeqApply(oracle, o, e).set
  /\ expect' = [expect EXCEPT ![t] = SeqApply(oracle, o, e).result]
  /\ UNCHANGED agree

Ordered(t) == OrderedAs(t, op[t], elem[t])

\* the call's result is decided: compare it with the oracle's
Log(t, r) ==
  /\ agree' = (agree /\ r = expect[t])
  /\ UNCHANGED <<oracle, expect>>

\* a call returns: the thread is idle again
Return(t) ==
  /\ pc' = [pc EXCEPT ![t] = "idle"]
  /\ op' = [op EXCEPT ![t] = "none"]
  /\ elem' = [elem EXCEPT ![t] = 0]
  /\ res' = [res EXCEPT ![t] = NoResult]
  /\ held' = [held EXCEPT ![t] = 0]
  /\ expect' = [expect EXCEPT ![t] = NoResult]
  /\ UNCHANGED <<oracle, agree>>


\* a thread calls o(e)
Enter(t, o, e, l) ==
  /\ pc[t] = "idle"
  /\ CallsIssued < MaxCalls
  /\ o \in OpsOf(workload)
  /\ e \in Elems(initial_capacity, workload)
  /\ op' = [op EXCEPT ![t] = o]
  /\ elem' = [elem EXCEPT ![t] = e]
  /\ calls' = [calls EXCEPT ![t] = @ + 1]
  /\ added' = IF o = "add" THEN added \cup {e} ELSE added
  /\ pc' = [pc EXCEPT ![t] = l]

\* Find with Add going on to push_back although the element was found
FindBuggyAddPushesDuplicate(t) ==
  LET b == Hash(elem[t]) % capacity
      r == Found(table[b + 1], elem[t])
  IN CASE op[t] = "add" ->
            /\ res' = [res EXCEPT ![t] = ~r]
            /\ Log(t, ~r)
            /\ Goto(t, "mutate")
       [] op[t] = "remove" ->
            /\ res' = [res EXCEPT ![t] = r]
            /\ Log(t, r)
            /\ Goto(t, IF r THEN "mutate" ELSE "leave")
       [] OTHER ->
            /\ res' = [res EXCEPT ![t] = r]
            /\ Log(t, r)
            /\ Goto(t, "leave")

\* Find with Add reporting success whether or not the element was found
FindBuggyAddAlwaysTrue(t) ==
  LET b == Hash(elem[t]) % capacity
      r == Found(table[b + 1], elem[t])
  IN CASE op[t] = "add" ->
            /\ res' = [res EXCEPT ![t] = TRUE]
            /\ Log(t, TRUE)
            /\ Goto(t, IF r THEN "leave" ELSE "mutate")
       [] op[t] = "remove" ->
            /\ res' = [res EXCEPT ![t] = r]
            /\ Log(t, r)
            /\ Goto(t, IF r THEN "mutate" ELSE "leave")
       [] OTHER ->
            /\ res' = [res EXCEPT ![t] = r]
            /\ Log(t, r)
            /\ Goto(t, "leave")

\* std::find over the bucket table_[hash % capacity_]: it decides the result
Find(t) ==
  LET b == Hash(elem[t]) % capacity
      r == Found(table[b + 1], elem[t])
  IN CASE op[t] = "add" ->
            /\ res' = [res EXCEPT ![t] = ~r]
            /\ Log(t, ~r)
            /\ Goto(t, IF r THEN "leave" ELSE "mutate")
       [] op[t] = "remove" ->
            /\ res' = [res EXCEPT ![t] = r]
            /\ Log(t, r)
            /\ Goto(t, IF r THEN "mutate" ELSE "leave")
       [] OTHER ->
            /\ res' = [res EXCEPT ![t] = r]
            /\ Log(t, r)
            /\ Goto(t, "leave")

\* Mutate with Remove emptying the whole bucket instead of erasing one entry
MutateBuggyRemoveClearsBucket(t) ==
  LET b == Hash(elem[t]) % capacity
  IN /\ table' = IF op[t] = "add" THEN PushBack(table, b, elem[t])
                 ELSE [table EXCEPT ![b + 1] = <<>>]
     /\ Goto(t, "count")

\* Mutate with the bucket index taken modulo the capacity at construction
MutateBuggyStaleCapacity(t) ==
  LET b == Hash(elem[t]) % initial_capacity
  IN /\ table' = IF op[t] = "add" THEN PushBack(table, b, elem[t])
                 ELSE EraseFrom(table, b, elem[t])
     /\ Goto(t, "count")

\* bucket.push_back(elem) in Add, bucket.erase(it) in Remove
Mutate(t) ==
  LET b == Hash(elem[t]) % capacity
  IN /\ table' = IF op[t] = "add" THEN PushBack(table, b, elem[t])
                 ELSE EraseFrom(table, b, elem[t])
     /\ Goto(t, "count")

\* size_++ / size_.fetch_add(1), size_-- / size_.fetch_sub(1)
\* Count with the counter update forgotten
CountSkipped(t) == size
Count(t) == IF op[t] = "add" THEN size + 1 ELSE size - 1

\* ---------------------------------------------------- HashSetSequential
\* No concurrency control: the set is used by thread 1 alone.
SequentialCall(t, o, e) ==
  /\ variant = "sequential"
  /\ t = 1
  /\ Enter(t, o, e, "find")
  /\ OrderedAs(t, o, e)
  /\ UNCHANGED <<config, shared, res, sz, old_capacity, idx, held>>

SequentialFind(t) ==
  /\ variant = "sequential"
  /\ pc[t] = "find"
  /\ Find(t)
  /\ UNCHANGED <<config, shared, op, elem, sz, old_capacity, idx, held, inputs>>

SequentialMutate(t) ==
  /\ variant = "sequential"
  /\ pc[t] = "mutate"
  /\ Mutate(t)
  /\ UNCHANGED <<config, capacity, size, mutex, mutexes, mutex_count, readers, writer,
                 op, elem, res, sz, old_capacity, idx, held, inputs, ghost>>

\* size_++ followed by the load-factor test; size_-- in Remove
SequentialCount(t) ==
  /\ variant = "sequential"
  /\ pc[t] = "count"
  /\ size' = Count(t)
  /\ Goto(t, IF op[t] = "add" /\ OverLoaded(size', capacity) THEN "double" ELSE "leave")
  /\ UNCHANGED <<config, table, capacity, mutex, mutexes, mutex_count, readers, writer,
                 op, elem, res, sz, old_capacity, idx, held, inputs, ghost>>

\* capacity_ *= 2
SequentialDouble(t) ==
  /\ variant = "sequential"
  /\ pc[t] = "double"
  /\ capacity' = capacity * Growth
  /\ Goto(t, "rehash")
  /\ UNCHANGED <<config, table, size, mutex, mutexes, mutex_count, readers, writer,
                 op, elem, res, sz, old_capacity, idx, held, inputs, ghost>>

\* the rehash loop and table_ = new_table
SequentialRehash(t) ==
  /\ variant = "sequential"
  /\ pc[t] = "rehash"
  /\ table' = Rehash(table, capacity)
  /\ Goto(t, "leave")
  /\ UNCHANGED <<config, capacity, size, mutex, mutexes, mutex_count, readers, writer,
                 op, elem, res, sz, old_capacity, idx, held, inputs, ghost>>

\* return
SequentialReturn(t) ==
  /\ variant = "sequential"
  /\ pc[t] = "leave"
  /\ Return(t)
  /\ UNCHANGED <<config, shared, sz, old_capacity, idx, inputs>>

SequentialSteps(t) ==
  \/ SequentialFind(t)
  \/ SequentialMutate(t)
  \/ SequentialCount(t)
  \/ SequentialDouble(t)
  \/ SequentialRehash(t)
  \/ SequentialReturn(t)

Sequential(t) ==
  \/ \E o \in OpNames, e \in AllElems : SequentialCall(t, o, e)
  \/ SequentialSteps(t)

\* -------------------------------------------------- HashSetCoarseGrained
CoarseCall(t, o, e) ==
  /\ variant = "coarse"
  /\ Enter(t, o, e, "lock")
  /\ UNCHANGED <<config, shared, res, sz, old_capacity, idx, held, ghost>>

\* std::scoped_lock<std::mutex> lock(mutex_)
CoarseLock(t) ==
  /\ variant = "coarse"
  /\ pc[t] = "lock"
  /\ mutex = NoThread
  /\ mutex' = t
  /\ Goto(t, "find")
  /\ Ordered(t)
  /\ UNCHANGED <<config, table, capacity, size, mutexes, mutex_count, readers, writer,
                 op, elem, res, sz, old_capacity, idx, held, inputs>>

CoarseFind(t) ==
  /\ variant = "coarse"
  /\ pc[t] = "find"
  /\ Find(t)
  /\ UNCHANGED <<config, table, capacity, size, mutex, mutexes, mutex_count, readers, writer,
                 op, elem, sz, old_capacity, idx, held, inputs>>

CoarseMutate(t) ==
  /\ variant = "coarse"
  /\ pc[t] = "mutate"
  /\ Mutate(t)
  /\ UNCHANGED <<config, capacity, size, mutex, mutexes, mutex_count, readers, writer,
                 op, elem, sz, old_capacity, idx, held, inputs, res, ghost>>

\* CoarseCount with the load-factor test left out: Add never resizes
CoarseCountBuggyNeverResizes(t) ==
  /\ variant = "coarse"
  /\ pc[t] = "count"
  /\ size' = Count(t)
  /\ Goto(t, "leave")
  /\ UNCHANGED <<config, table, capacity, mutex, mutexes, mutex_count, readers, writer,
                 op, elem, res, sz, old_capacity, idx, held, inputs, ghost>>

\* size_++ followed by the load-factor test; size_-- in Remove
CoarseCount(t) ==
  /\ variant = "coarse"
  /\ pc[t] = "count"
  /\ size' = Count(t)
  /\ Goto(t, IF op[t] = "add" /\ OverLoaded(size', capacity) THEN "double" ELSE "leave")
  /\ UNCHANGED <<config, table, capacity, mutex, mutexes, mutex_count, readers, writer,
                 op, elem, res, sz, old_capacity, idx, held, inputs, ghost>>

\* capacity_ *= 2
CoarseDouble(t) ==
  /\ variant = "coarse"
  /\ pc[t] = "double"
  /\ capacity' = capacity * Growth
  /\ Goto(t, "rehash")
  /\ UNCHANGED <<config, table, size, mutex, mutexes, mutex_count, readers, writer,
                 op, elem, res, sz, old_capacity, idx, held, inputs, ghost>>

\* the rehash loop and table_ = new_table
CoarseRehash(t) ==
  /\ variant = "coarse"
  /\ pc[t] = "rehash"
  /\ table' = Rehash(table, capacity)
  /\ Goto(t, "leave")
  /\ UNCHANGED <<config, capacity, size, mutex, mutexes, mutex_count, readers, writer,
                 op, elem, res, sz, old_capacity, idx, held, inputs, ghost>>

\* the scoped_lock's destructor, and the return
CoarseUnlock(t) ==
  /\ variant = "coarse"
  /\ pc[t] = "leave"
  /\ mutex' = NoThread
  /\ Return(t)
  /\ UNCHANGED <<config, table, capacity, size, mutexes, mutex_count, readers, writer,
                 sz, old_capacity, idx, inputs>>

CoarseSteps(t) ==
  \/ CoarseLock(t)
  \/ CoarseFind(t)
  \/ CoarseMutate(t)
  \/ CoarseCount(t)
  \/ CoarseDouble(t)
  \/ CoarseRehash(t)
  \/ CoarseUnlock(t)

Coarse(t) ==
  \/ \E o \in OpNames, e \in AllElems : CoarseCall(t, o, e)
  \/ CoarseSteps(t)

\* -------------------------------------------------------- HashSetStriped
StripedCall(t, o, e) ==
  /\ variant = "striped"
  /\ Enter(t, o, e, IF o = "add" THEN "load_size" ELSE "lock")
  /\ UNCHANGED <<config, shared, res, sz, old_capacity, idx, held, ghost>>

\* Add: the atomic load of size_ in `size_ > 4 * capacity_`
StripedLoadSize(t) ==
  /\ variant = "striped"
  /\ pc[t] = "load_size"
  /\ sz' = [sz EXCEPT ![t] = size]
  /\ Goto(t, "check")
  /\ UNCHANGED <<config, shared, op, elem, res, old_capacity, idx, held, inputs, ghost>>

\* StripedCheck with the comparison lost: Add never calls resize
StripedCheckBuggyNeverResizes(t) ==
  /\ variant = "striped"
  /\ pc[t] = "check"
  /\ Goto(t, "lock")
  /\ sz' = [sz EXCEPT ![t] = 0]
  /\ UNCHANGED <<config, shared, op, elem, res, old_capacity, idx, held, inputs, ghost>>

\* Add: the unlocked read of capacity_ and the comparison. capacity_ is a plain
\* size_t that resize writes under the stripe locks: the read races with that
\* write and yields the value before or after it, whichever the interleaving
\* of this step with StripedResizeDouble gives
StripedCheck(t) ==
  /\ variant = "striped"
  /\ pc[t] = "check"
  /\ Goto(t, IF OverLoaded(sz[t], capacity) THEN "resize" ELSE "lock")
  /\ sz' = [sz EXCEPT ![t] = 0]
  /\ UNCHANGED <<config, shared, op, elem, res, old_capacity, idx, held, inputs, ghost>>

\* resize: size_t old_capacity = capacity_
StripedResizeRead(t) ==
  /\ variant = "striped"
  /\ pc[t] = "resize"
  /\ old_capacity' = [old_capacity EXCEPT ![t] = capacity]
  /\ idx' = [idx EXCEPT ![t] = 0]
  /\ Goto(t, "array_lock")
  /\ UNCHANGED <<config, shared, op, elem, res, sz, held, inputs, ghost>>

\* StripedArrayLock walking the lock array from its last index down
StripedArrayLockBuggyDescending(t) ==
  /\ variant = "striped"
  /\ pc[t] = "array_lock"
  /\ idx[t] < mutex_count
  /\ mutexes[mutex_count - idx[t]] = NoThread
  /\ mutexes' = [mutexes EXCEPT ![mutex_count - idx[t]] = t]
  /\ idx' = [idx EXCEPT ![t] = @ + 1]
  /\ Goto(t, IF idx[t] + 1 = mutex_count THEN "barrier" ELSE "array_lock")
  /\ UNCHANGED <<config, table, capacity, size, mutex, mutex_count, readers, writer,
                 op, elem, res, sz, old_capacity, held, inputs, ghost>>

\* StripedArrayLock taking each stripe whether or not another thread holds it
StripedArrayLockBuggyNoWait(t) ==
  /\ variant = "striped"
  /\ pc[t] = "array_lock"
  /\ idx[t] < mutex_count
  /\ mutexes' = [mutexes EXCEPT ![idx[t] + 1] = t]
  /\ idx' = [idx EXCEPT ![t] = @ + 1]
  /\ Goto(t, IF idx[t] + 1 = mutex_count THEN "barrier" ELSE "array_lock")
  /\ UNCHANGED <<config, table, capacity, size, mutex, mutex_count, readers, writer,
                 op, elem, res, sz, old_capacity, held, inputs, ghost>>

\* ArrayLock's constructor: mutexes_[i].lock() for i = 0, 1, ...
StripedArrayLock(t) ==
  /\ variant = "striped"
  /\ pc[t] = "array_lock"
  /\ idx[t] < mutex_count
  /\ mutexes[idx[t] + 1] = NoThread
  /\ mutexes' = [mutexes EXCEPT ![idx[t] + 1] = t]
  /\ idx' = [idx EXCEPT ![t] = @ + 1]
  /\ Goto(t, IF idx[t] + 1 = mutex_count THEN "barrier" ELSE "array_lock")
  /\ UNCHANGED <<config, table, capacity, size, mutex, mutex_count, readers, writer,
                 op, elem, res, sz, old_capacity, held, inputs, ghost>>

\* StripedResizeEarlyReturn leaving the stripe locks locked
StripedResizeEarlyReturnBuggyKeepsLocks(t) ==
  /\ variant = "striped"
  /\ pc[t] = "barrier"
  /\ capacity # old_capacity[t]
  /\ idx' = [idx EXCEPT ![t] = 0]
  /\ Goto(t, "lock")
  /\ UNCHANGED <<config, shared, op, elem, res, sz, old_capacity, held, inputs, ghost>>

\* resize: if (capacity_ != old_capacity) return
StripedResizeEarlyReturn(t) ==
  /\ variant = "striped"
  /\ pc[t] = "barrier"
  /\ capacity # old_capacity[t]
  /\ idx' = [idx EXCEPT ![t] = 0]
  /\ Goto(t, "array_unlock")
  /\ UNCHANGED <<config, shared, op, elem, res, sz, old_capacity, held, inputs, ghost>>

\* resize: capacity_ *= 2
StripedResizeDouble(t) ==
  /\ variant = "striped"
  /\ pc[t] = "barrier"
  /\ capacity = old_capacity[t]
  /\ capacity' = capacity * Growth
  /\ Goto(t, "rehash")
  /\ UNCHANGED <<config, table, size, mutex, mutexes, mutex_count, readers, writer,
                 op, elem, res, sz, old_capacity, idx, held, inputs, ghost>>

\* resize: the rehash loop and table_ = new_table
StripedRehash(t) ==
  /\ variant = "striped"
  /\ pc[t] = "rehash"
  /\ table' = Rehash(table, capacity)
  /\ idx' = [idx EXCEPT ![t] = 0]
  /\ Goto(t, "array_unlock")
  /\ UNCHANGED <<config, capacity, size, mutex, mutexes, mutex_count, readers, writer,
                 op, elem, res, sz, old_capacity, held, inputs, ghost>>

\* ArrayLock's destructor: mutexes_[i].unlock() for i = 0, 1, ...; then resize returns
StripedArrayUnlock(t) ==
  /\ variant = "striped"
  /\ pc[t] = "array_unlock"
  /\ mutexes' = [mutexes EXCEPT ![idx[t] + 1] = NoThread]
  /\ IF idx[t] + 1 = mutex_count
     THEN /\ idx' = [idx EXCEPT ![t] = 0]
          /\ old_capacity' = [old_capacity EXCEPT ![t] = 0]
          /\ Goto(t, "lock")
     ELSE /\ idx' = [idx EXCEPT ![t] = @ + 1]
          /\ UNCHANGED <<old_capacity, pc>>
  /\ UNCHANGED <<config, table, capacity, size, mutex, mutex_count, readers, writer,
                 op, elem, res, sz, held, inputs, ghost>>

\* std::scoped_lock<std::mutex> lock(mutexes_[hash % mutex_count_])
\* StripeOf computed from the hash with its lowest bit dropped
StripeOfBuggyHalved(e) == (Hash(e) \div 2) % mutex_count

StripeOf(e) == Hash(e) % mutex_count

\* StripedLock entering the critical section whether or not the stripe is free
StripedLockBuggyNoWait(t) ==
  /\ variant = "striped"
  /\ pc[t] = "lock"
  /\ mutexes' = [mutexes EXCEPT ![StripeOf(elem[t]) + 1] = t]
  /\ held' = [held EXCEPT ![t] = StripeOf(elem[t]) + 1]
  /\ Goto(t, "find")
  /\ Ordered(t)
  /\ UNCHANGED <<config, table, capacity, size, mutex, mutex_count, readers, writer,
                 op, elem, res, sz, old_capacity, idx, inputs>>

StripedLock(t) ==
  /\ variant = "striped"
  /\ pc[t] = "lock"
  /\ mutexes[StripeOf(elem[t]) + 1] = NoThread
  /\ mutexes' = [mutexes EXCEPT ![StripeOf(elem[t]) + 1] = t]
  /\ held' = [held EXCEPT ![t] = StripeOf(elem[t]) + 1]
  /\ Goto(t, "find")
  /\ Ordered(t)
  /\ UNCHANGED <<config, table, capacity, size, mutex, mutex_count, readers, writer,
                 op, elem, res, sz, old_capacity, idx, inputs>>

StripedFind(t) ==
  /\ variant = "striped"
  /\ pc[t] = "find"
  /\ Find(t)
  /\ UNCHANGED <<config, table, capacity, size, mutex, mutexes, mutex_count, readers, writer,
                 op, elem, sz, old_capacity, idx, held, inputs>>

StripedMutate(t) ==
  /\ variant = "striped"
  /\ pc[t] = "mutate"
  /\ Mutate(t)
  /\ UNCHANGED <<config, capacity, size, mutex, mutexes, mutex_count, readers, writer,
                 op, elem, sz, old_capacity, idx, held, inputs, res, ghost>>

\* size_.fetch_add(1) / size_.fetch_sub(1)
StripedCount(t) ==
  /\ variant = "striped"
  /\ pc[t] = "count"
  /\ size' = Count(t)
  /\ Goto(t, "leave")
  /\ UNCHANGED <<config, table, capacity, mutex, mutexes, mutex_count, readers, writer,
                 op, elem, res, sz, old_capacity, idx, held, inputs, ghost>>

\* the scoped_lock's destructor, and the return
StripedUnlock(t) ==
  /\ variant = "striped"
  /\ pc[t] = "leave"
  /\ mutexes' = [mutexes EXCEPT ![held[t]] = NoThread]
  /\ Return(t)
  /\ UNCHANGED <<config, table, capacity, size, mutex, mutex_count, readers, writer,
                 sz, old_capacity, idx, inputs>>

StripedSteps(t) ==
  \/ StripedLoadSize(t)
  \/ StripedCheck(t)
  \/ StripedResizeRead(t)
  \/ StripedArrayLock(t)
  \/ StripedResizeEarlyReturn(t)
  \/ StripedResizeDouble(t)
  \/ StripedRehash(t)
  \/ StripedArrayUnlock(t)
  \/ StripedLock(t)
  \/ StripedFind(t)
  \/ StripedMutate(t)
  \/ StripedCount(t)
  \/ StripedUnlock(t)

Striped(t) ==
  \/ \E o \in OpNames, e \in AllElems : StripedCall(t, o, e)
  \/ StripedSteps(t)

\* ------------------------------------------------------ HashSetRefinable
RefinableCall(t, o, e) ==
  /\ variant = "refinable"
  /\ Enter(t, o, e, IF o = "add" THEN "load_size" ELSE "shared_lock")
  /\ UNCHANGED <<config, shared, res, sz, old_capacity, idx, held, ghost>>

\* Add: the atomic load of size_ in `size_ > 4 * capacity_`
RefinableLoadSize(t) ==
  /\ variant = "refinable"
  /\ pc[t] = "load_size"
  /\ sz' = [sz EXCEPT ![t] = size]
  /\ Goto(t, "check")
  /\ UNCHANGED <<config, shared, op, elem, res, old_capacity, idx, held, inputs, ghost>>

\* Add: the unlocked read of capacity_ and the comparison
RefinableCheck(t) ==
  /\ variant = "refinable"
  /\ pc[t] = "check"
  /\ Goto(t, IF OverLoaded(sz[t], capacity) THEN "resize" ELSE "shared_lock")
  /\ sz' = [sz EXCEPT ![t] = 0]
  /\ UNCHANGED <<config, shared, op, elem, res, old_capacity, idx, held, inputs, ghost>>

\* resize: size_t old_capacity = capacity_
RefinableResizeRead(t) ==
  /\ variant = "refinable"
  /\ pc[t] = "resize"
  /\ old_capacity' = [old_capacity EXCEPT ![t] = capacity]
  /\ Goto(t, "exclusive_lock")
  /\ UNCHANGED <<config, shared, op, elem, res, sz, idx, held, inputs, ghost>>

\* resize: std::unique_lock<std::shared_mutex> rl(resize_mutex_)
RefinableExclusiveLock(t) ==
  /\ variant = "refinable"
  /\ pc[t] = "exclusive_lock"
  /\ writer = NoThread
  /\ readers = {}
  /\ writer' = t
  /\ Goto(t, "barrier")
  /\ UNCHANGED <<config, table, capacity, size, mutex, mutexes, mutex_count, readers,
                 op, elem, res, sz, old_capacity, idx, held, inputs, ghost>>

\* RefinableResizeEarlyReturn leaving resize with the exclusive lock still held
RefinableResizeEarlyReturnBuggyKeepsLock(t) ==
  /\ variant = "refinable"
  /\ pc[t] = "barrier"
  /\ capacity # old_capacity[t]
  /\ Goto(t, "shared_lock")
  /\ UNCHANGED <<config, shared, op, elem, res, sz, old_capacity, idx, held, inputs, ghost>>

\* resize: if (capacity_ != old_capacity) return
RefinableResizeEarlyReturn(t) ==
  /\ variant = "refinable"
  /\ pc[t] = "barrier"
  /\ capacity # old_capacity[t]
  /\ Goto(t, "exclusive_unlock")
  /\ UNCHANGED <<config, shared, op, elem, res, sz, old_capacity, idx, held, inputs, ghost>>

\* resize: capacity_ *= 2
RefinableResizeDouble(t) ==
  /\ variant = "refinable"
  /\ pc[t] = "barrier"
  /\ capacity = old_capacity[t]
  /\ capacity' = capacity * Growth
  /\ Goto(t, "rehash")
  /\ UNCHANGED <<config, table, size, mutex, mutexes, mutex_count, readers, writer,
                 op, elem, res, sz, old_capacity, idx, held, inputs, ghost>>

\* resize: the rehash loop and table_ = new_table
RefinableRehash(t) ==
  /\ variant = "refinable"
  /\ pc[t] = "rehash"
  /\ table' = Rehash(table, capacity)
  /\ Goto(t, "grow_locks")
  /\ UNCHANGED <<config, capacity, size, mutex, mutexes, mutex_count, readers, writer,
                 op, elem, res, sz, old_capacity, idx, held, inputs, ghost>>

\* GrowLocks with the loop that appends the new mutexes left out
GrowLocksBuggyNoGrowth(ms, cap) == ms

\* resize: push_back a new mutex for every index from mutexes_.size() up to capacity_
GrowLocks(ms, cap) == ms \o NewLocks(IF cap > Len(ms) THEN cap - Len(ms) ELSE 0)

RefinableGrowLocks(t) ==
  /\ variant = "refinable"
  /\ pc[t] = "grow_locks"
  /\ mutexes' = GrowLocks(mutexes, capacity)
  /\ Goto(t, "exclusive_unlock")
  /\ UNCHANGED <<config, table, capacity, size, mutex, mutex_count, readers, writer,
                 op, elem, res, sz, old_capacity, idx, held, inputs, ghost>>

\* the unique_lock's destructor; resize returns into Add
RefinableExclusiveUnlock(t) ==
  /\ variant = "refinable"
  /\ pc[t] = "exclusive_unlock"
  /\ writer' = NoThread
  /\ old_capacity' = [old_capacity EXCEPT ![t] = 0]
  /\ Goto(t, "shared_lock")
  /\ UNCHANGED <<config, table, capacity, size, mutex, mutexes, mutex_count, readers,
                 op, elem, res, sz, idx, held, inputs, ghost>>

\* RefinableSharedLock not waiting for a resize that holds the mutex exclusively
RefinableSharedLockBuggyNoWait(t) ==
  /\ variant = "refinable"
  /\ pc[t] = "shared_lock"
  /\ readers' = readers \cup {t}
  /\ Goto(t, "bucket_lock")
  /\ UNCHANGED <<config, table, capacity, size, mutex, mutexes, mutex_count, writer,
                 op, elem, res, sz, old_capacity, idx, held, inputs, ghost>>

\* std::shared_lock<std::shared_mutex> rl(resize_mutex_)
RefinableSharedLock(t) ==
  /\ variant = "refinable"
  /\ pc[t] = "shared_lock"
  /\ writer = NoThread
  /\ readers' = readers \cup {t}
  /\ Goto(t, "bucket_lock")
  /\ UNCHANGED <<config, table, capacity, size, mutex, mutexes, mutex_count, writer,
                 op, elem, res, sz, old_capacity, idx, held, inputs, ghost>>

\* std::scoped_lock<std::mutex> lock(*mutexes_[hash % capacity_])
BucketOf(e) == Hash(e) % capacity

\* RefinableBucketLock entering whether or not the bucket's mutex is free
RefinableBucketLockBuggyNoWait(t) ==
  /\ variant = "refinable"
  /\ pc[t] = "bucket_lock"
  /\ mutexes' = [mutexes EXCEPT ![BucketOf(elem[t]) + 1] = t]
  /\ held' = [held EXCEPT ![t] = BucketOf(elem[t]) + 1]
  /\ Goto(t, "find")
  /\ Ordered(t)
  /\ UNCHANGED <<config, table, capacity, size, mutex, mutex_count, readers, writer,
                 op, elem, res, sz, old_capacity, idx, inputs>>

RefinableBucketLock(t) ==
  /\ variant = "refinable"
  /\ pc[t] = "bucket_lock"
  /\ mutexes[BucketOf(elem[t]) + 1] = NoThread
  /\ mutexes' = [mutexes EXCEPT ![BucketOf(elem[t]) + 1] = t]
  /\ held' = [held EXCEPT ![t] = BucketOf(elem[t]) + 1]
  /\ Goto(t, "find")
  /\ Ordered(t)
  /\ UNCHANGED <<config, table, capacity, size, mutex, mutex_count, readers, writer,
                 op, elem, res, sz, old_capacity, idx, inputs>>

RefinableFind(t) ==
  /\ variant = "refinable"
  /\ pc[t] = "find"
  /\ Find(t)
  /\ UNCHANGED <<config, table, capacity, size, mutex, mutexes, mutex_count, readers, writer,
                 op, elem, sz, old_capacity, idx, held, inputs>>

RefinableMutate(t) ==
  /\ variant = "refinable"
  /\ pc[t] = "mutate"
  /\ Mutate(t)
  /\ UNCHANGED <<config, capacity, size, mutex, mutexes, mutex_count, readers, writer,
                 op, elem, sz, old_capacity, idx, held, inputs, res, ghost>>

\* size_.fetch_add(1) / size_.fetch_sub(1)
RefinableCount(t) ==
  /\ variant = "refinable"
  /\ pc[t] = "count"
  /\ size' = Count(t)
  /\ Goto(t, "leave")
  /\ UNCHANGED <<config, table, capacity, mutex, mutexes, mutex_count, readers, writer,
                 op, elem, res, sz, old_capacity, idx, held, inputs, ghost>>

\* the scoped_lock's destructor
RefinableBucketUnlock(t) ==
  /\ variant = "refinable"
  /\ pc[t] = "leave"
  /\ mutexes' = [mutexes EXCEPT ![held[t]] = NoThread]
  /\ held' = [held EXCEPT ![t] = 0]
  /\ Goto(t, "shared_unlock")
  /\ UNCHANGED <<config, table, capacity, size, mutex, mutex_count, readers, writer,
                 op, elem, res, sz, old_capacity, idx, inputs, ghost>>

\* the shared_lock's destructor, and the return
RefinableSharedUnlock(t) ==
  /\ variant = "refinable"
  /\ pc[t] = "shared_unlock"
  /\ readers' = readers \ {t}
  /\ Return(t)
  /\ UNCHANGED <<config, table, capacity, size, mutex, mutexes, mutex_count, writer,
                 sz, old_capacity, idx, inputs>>

RefinableSteps(t) ==
  \/ RefinableLoadSize(t)
  \/ RefinableCheck(t)
  \/ RefinableResizeRead(t)
  \/ RefinableExclusiveLock(t)
  \/ RefinableResizeEarlyReturn(t)
  \/ RefinableResizeDouble(t)
  \/ RefinableRehash(t)
  \/ RefinableGrowLocks(t)
  \/ RefinableExclusiveUnlock(t)
  \/ RefinableSharedLock(t)
  \/ RefinableBucketLock(t)
  \/ RefinableFind(t)
  \/ RefinableMutate(t)
  \/ RefinableCount(t)
  \/ RefinableBucketUnlock(t)
  \/ RefinableSharedUnlock(t)

Refinable(t) ==
  \/ \E o \in OpNames, e \in AllElems : RefinableCall(t, o, e)
  \/ RefinableSteps(t)

\* ------------------------------------------------------------ the system
Next == \E t \in Threads : Sequential(t) \/ Coarse(t) \/ Striped(t) \/ Refinable(t)

Spec == Init /\ [][Next]_vars

\* the same threads issuing Add calls only
SpecAdds == InitAdds /\ [][Next]_vars

\* striped and refinable threads with a call in flight keep being scheduled
ConcurrentInit ==
  /\ InitState("few")
  /\ variant \in {"striped", "refinable"}
  /\ prefill = LoadFactor * initial_capacity

ConcurrentNext == \E t \in Threads : Striped(t) \/ Refinable(t)

FairSpec ==
  /\ ConcurrentInit
  /\ [][ConcurrentNext]_vars
  /\ \A t \in Threads : WF_vars(StripedSteps(t) \/ RefinableSteps(t))

\* ------------------------------------------------------------ vocabulary
Concurrent == {"coarse", "striped", "refinable"}
Lazy == {"striped", "refinable"}
Eager == {"sequential", "coarse"}

\* the thread's call has searched its bucket and got result b
Got(t, b) ==
  /\ \/ pc[t] \in {"mutate", "count", "leave", "shared_unlock"}
     \/ variant \in Eager /\ pc[t] \in {"double", "rehash"}
  /\ res[t] = b
AllIdle == \A t \in Threads : pc[t] = "idle"
OnlyThread(t) == \A u \in Threads \ {t} : calls[u] = 0

\* what Contains(e) returns when no other call is in flight
ContainsNow(e) == Found(table[(Hash(e) % capacity) + 1], e)

\* some thread is between capacity_ *= 2 and table_ = new_table
Rehashing == \E t \in Threads : pc[t] = "rehash"

\* the smallest initial_capacity * 2^k with n <= 4 * capacity
RECURSIVE SmallestCapacity(_, _)
SmallestCapacity(c, n) == IF OverLoaded(n, c) THEN SmallestCapacity(c * Growth, n) ELSE c

\* ---------------------------------------------------------------- claims

\* C1: every result a call of a concurrent variant returns is the result
\* HashSetSequential returns when it is given the same calls one at a time in
\* the order in which they acquired their lock.
C1_ResultsFollowLockOrder == variant \in Concurrent => agree

\* two threads are inside Add of the same element, which was absent: one call
\* got true, the other false
C1_Witness ==
  \E t \in Threads, u \in Threads :
    /\ t # u
    /\ op[t] = "add" /\ op[u] = "add" /\ elem[t] = elem[u]
    /\ Got(t, TRUE) /\ Got(u, FALSE)

\* C2: after an Add-only run has finished, Size() is the number of distinct
\* elements that were added and every one of them is found.
C2_NoLostUpdates ==
  AllIdle => /\ size = Cardinality(added)
             /\ \A e \in added : ContainsNow(e)

\* both threads added elements of their own, a resize happened on the way
C2_Witness ==
  /\ AllIdle
  /\ variant \in Lazy
  /\ \A t \in Threads : calls[t] > 0
  /\ size = prefill + MaxCalls
  /\ capacity > initial_capacity

\* C3: in the striped and the refinable set every call that has started
\* returns, provided its thread keeps being scheduled (so no state is stuck
\* with a call in flight).
C3_EveryCallReturns == \A t \in Threads : (pc[t] # "idle") ~> (pc[t] = "idle")

\* a resize holds a lock another thread is waiting for
C3_Witness ==
  \E t \in Threads, u \in Threads :
    /\ t # u
    /\ pc[t] = "rehash"
    /\ pc[u] \in {"lock", "array_lock", "exclusive_lock", "shared_lock"}

\* C4: used by one thread only, each concurrent variant returns what
\* HashSetSequential returns for every call, and between calls answers every
\* Contains as HashSetSequential does and has the same Size().
C4_SingleThreadEquivalence ==
  (variant \in Concurrent /\ \E t \in Threads : OnlyThread(t)) =>
    /\ agree
    /\ AllIdle => /\ size = oracle.size
                  /\ \A e \in AllElems : ContainsNow(e) = SeqContains(oracle, e).result

\* one thread made all the calls on a striped set whose capacity differs from
\* the sequential set's
C4_Witness ==
  /\ variant = "striped"
  /\ \E t \in Threads : OnlyThread(t) /\ calls[t] = MaxCalls
  /\ AllIdle
  /\ capacity # oracle.capacity

\* C5: Add returns true exactly when the element is absent when its bucket
\* is searched, and Remove exactly when it is present; after Add's push_back
\* the element is present, after Remove's erase it is absent.
C5_AddRemoveResults ==
  [][\A t \in Threads :
       /\ (pc[t] = "find" /\ pc'[t] # "find" /\ op[t] = "add") =>
            (res'[t] = (elem[t] \notin Contents(table)))
       /\ (pc[t] = "find" /\ pc'[t] # "find" /\ op[t] = "remove") =>
            (res'[t] = (elem[t] \in Contents(table)))
       /\ (pc[t] = "find" /\ pc'[t] = "leave" /\ op[t] = "add") =>
            elem[t] \in Contents(table')
       /\ (pc[t] = "mutate" /\ pc'[t] # "mutate") =>
            ((op[t] = "add") = (elem[t] \in Contents(table')))]_vars

\* a thread alone on an empty set added an element and is adding it again:
\* the second Add got false
C5_Witness ==
  \E t \in Threads :
    /\ OnlyThread(t) /\ calls[t] = 2 /\ prefill = 0
    /\ size = 1 /\ op[t] = "add" /\ Got(t, FALSE)

\* the elements added so far are all found, each in bucket hash(e) mod capacity
AllAddedFound ==
  \A e \in added :
    /\ ContainsNow(e)
    /\ \A b \in 1..Len(table) : Found(table[b], e) => b = (Hash(e) % capacity) + 1

\* thread 1 alone has added n distinct elements to the empty set, one after
\* the other, and is between calls
AddedSequentially(n) ==
  /\ prefill = LoadFactor * initial_capacity
  /\ OnlyThread(1)
  /\ prefill + calls[1] = n
  /\ Cardinality(added) = n
  /\ AllIdle

\* C6 as stated: after 4 * c + 1 sequential Adds of distinct elements the
\* capacity is 2 * c and every element is found in bucket hash(e) mod (2 * c).
C6_DoubledAfterThresholdAdd ==
  AddedSequentially(LoadFactor * initial_capacity + 1) =>
    /\ capacity = Growth * initial_capacity
    /\ AllAddedFound

\* C6 amended: after 4 * c + 1 sequential Adds of distinct elements the
\* capacity is 2 * c in the sequential and the coarse-grained set and still c
\* in the striped and the refinable set, which resize at the beginning of the
\* next Add; after 4 * c + 2 it is 2 * c in all four. Every added element is
\* found in bucket hash(e) mod capacity throughout.
C6_DoubledOnce ==
  /\ AddedSequentially(LoadFactor * initial_capacity + 1) =>
       /\ capacity = IF variant \in Eager THEN Growth * initial_capacity
                     ELSE initial_capacity
       /\ AllAddedFound
  /\ AddedSequentially(LoadFactor * initial_capacity + 2) =>
       /\ capacity = Growth * initial_capacity
       /\ AllAddedFound

\* a striped set after 4 * c + 2 sequential Adds: it has doubled once
C6_Witness ==
  /\ variant = "striped"
  /\ AddedSequentially(LoadFactor * initial_capacity + 2)
  /\ capacity = Growth * initial_capacity

\* C7 as stated: after an Add-only run has finished, the capacity of a
\* striped or refinable set has been doubled once per crossing of the
\* threshold, so it does not exceed the smallest initial_capacity * 2^k with
\* size <= 4 * capacity.
C7_DoubledOncePerCrossing ==
  (variant \in Lazy /\ AllIdle) =>
    capacity <= SmallestCapacity(initial_capacity, size)

\* C8 as stated: capacity changes by doubling only, and when it is doubled
\* size > 4 * capacity holds for the capacity being doubled.
C8_DoublesOnlyWhenOverLoaded ==
  [][capacity' # capacity =>
       /\ capacity' = Growth * capacity
       /\ OverLoaded(size, capacity)]_vars

\* C9: unless a resize is between doubling capacity_ and installing the new
\* table, the table has capacity buckets, every element in it is in bucket
\* hash(e) mod capacity and in no bucket twice.
C9_BucketsWellFormed ==
  ~Rehashing =>
    /\ Len(table) = capacity
    /\ \A b \in 1..Len(table) :
         /\ \A i \in 1..Len(table[b]) : Hash(table[b][i]) % capacity = b - 1
         /\ \A i \in 1..Len(table[b]), j \in 1..Len(table[b]) :
              table[b][i] = table[b][j] => i = j

\* after a resize and a Remove: two buckets, fewer elements than were added
C9_Witness ==
  /\ AllIdle
  /\ capacity > initial_capacity
  /\ 0 < Entries(table)
  /\ Entries(table) < Cardinality(added)

\* C10: when no Add or Remove is between its bucket mutation and its counter
\* update, size is the number of entries of the table; the steps of a resize
\* leave size and the number of entries as they are.
Counting == \E t \in Threads : pc[t] = "count"

C10_SizeCountsEntries ==
  /\ ~Counting => size = Entries(table)
  /\ [][/\ ~Counting' => size' = Entries(table')
        /\ (capacity' # capacity \/ \E t \in Threads : pc[t] = "rehash") =>
             (size' = size /\ Entries(table') = Entries(table))]_vars

\* a resize has rehashed a table that a Remove had shrunk before
C10_Witness ==
  /\ ~Counting
  /\ capacity > initial_capacity
  /\ \E t \in Threads : pc[t] \in {"array_unlock", "grow_locks"}
  /\ size < Cardinality(added)

\* the thread is inside the critical section of Add, Remove or Contains: it
\* holds the lock of its bucket and has not released it yet
InCriticalSection(t) == pc[t] \in {"find", "mutate", "count", "leave"}

\* C11: in the striped and the refinable set, while a thread is between
\* capacity_ *= 2 and table_ = new_table no other thread is inside a critical
\* section or rehashing, and a thread that reads or mutates a bucket finds a
\* table of exactly capacity buckets.
C11_ResizeIsAtomic ==
  variant \in Lazy =>
    /\ \A t \in Threads : pc[t] = "rehash" =>
         \A u \in Threads \ {t} : ~InCriticalSection(u) /\ pc[u] # "rehash"
    /\ \A t \in Threads : pc[t] \in {"find", "mutate"} => Len(table) = capacity

\* a refinable resize is rehashing while a Contains call waits for the
\* shared lock
C11_Witness ==
  \E t \in Threads, u \in Threads :
    /\ variant = "refinable"
    /\ pc[t] = "rehash"
    /\ pc[u] = "shared_lock" /\ op[u] = "contains"

\* the thread's call is past std::find: its result is decided
Searched(t) ==
  \/ pc[t] \in {"mutate", "count", "leave", "shared_unlock"}
  \/ variant \in Eager /\ pc[t] \in {"double", "rehash"}

\* thread t, the only one calling, is inside Add(e) with e resident and has
\* not searched the bucket yet: the call is going to return false
AddOfResident(t) ==
  /\ OnlyThread(t)
  /\ op[t] = "add" /\ pc[t] # "idle" /\ ~Searched(t)
  /\ elem[t] \in Contents(table)

\* a step of thread t's Add after its search found the element
FailedAddStep(t) == op[t] = "add" /\ Got(t, FALSE) /\ pc'[t] # pc[t]

\* C12 as stated: an Add that returns false because the element is resident
\* changes neither the table nor size nor capacity, at any of its steps.
C12_FailedAddChangesNothing ==
  [][\A t \in Threads :
       (AddOfResident(t) \/ FailedAddStep(t)) => UNCHANGED <<table, size, capacity>>]_vars

\* C12 amended: an Add that returns false leaves the resident elements and
\* size as they are, and changes nothing once it has searched the bucket. In
\* the sequential and the coarse-grained set it changes neither capacity nor
\* the table; in the striped and the refinable set the resize at the
\* beginning of Add may double capacity and rehash the table before the
\* search.
C12_FailedAddKeepsElements ==
  [][\A t \in Threads :
       /\ FailedAddStep(t) => UNCHANGED <<table, size, capacity>>
       /\ AddOfResident(t) =>
            /\ Contents(table') = Contents(table)
            /\ size' = size
            /\ variant \in Eager => UNCHANGED <<table, capacity>>
            /\ capacity' # capacity =>
                 pc[t] = "barrier" /\ capacity' = Growth * capacity
            /\ table' # table =>
                 pc[t] = "rehash" /\ table' = Rehash(table, capacity)]_vars

\* a thread alone added the element that crosses the threshold and then
\* called Add of a resident element: the set was resized within that call,
\* which found the element
C12_Witness ==
  \E t \in Threads :
    /\ variant \in Lazy
    /\ OnlyThread(t) /\ calls[t] = 2
    /\ prefill = LoadFactor * initial_capacity
    /\ op[t] = "add" /\ Got(t, FALSE)
    /\ capacity = Growth * initial_capacity

\* ------------------------------------------------- construction with 0
\* The constructors take any size_t: with initial_capacity = 0 they build an
\* empty table (and an empty lock array) and return normally.
InitZeroCapacity ==
  /\ workload = "few"
  /\ variant \in Variants
  /\ initial_capacity = 0
  /\ prefill = 0
  /\ table = NewTable(0)
  /\ capacity = 0
  /\ size = 0
  /\ mutex = NoThread
  /\ mutexes = NewLocks(0)
  /\ mutex_count = 0
  /\ readers = {}
  /\ writer = NoThread
  /\ pc = [t \in Threads |-> "idle"]
  /\ op = [t \in Threads |-> "none"]
  /\ elem = [t \in Threads |-> 0]
  /\ res = [t \in Threads |-> NoResult]
  /\ sz = [t \in Threads |-> 0]
  /\ old_capacity = [t \in Threads |-> 0]
  /\ idx = [t \in Threads |-> 0]
  /\ held = [t \in Threads |-> 0]
  /\ calls = [t \in Threads |-> 0]
  /\ oracle = SeqNew(0)
  /\ expect = [t \in Threads |-> NoResult]
  /\ agree = TRUE
  /\ added = {}

\* what `hash % capacity_` (striped: `hash % mutex_count_`) with a zero
\* divisor can do, the behaviour being undefined: the division traps and the
\* process ends, or it yields some value and the call indexes the empty
\* table (the empty lock array) out of bounds
DivisionByZeroOutcomes == {"trapped", "out_of_bounds"}

\* Add, Remove or Contains on a set constructed with capacity 0: nothing stops
\* the call, and its first use of the capacity divides by zero (in Add of the
\* striped and the refinable set after `size_ > 4 * capacity_` was false)
ZeroCapacityCall(t, o, e) ==
  /\ initial_capacity = 0
  /\ pc[t] = "idle"
  /\ \A u \in Threads : pc[u] # "trapped"
  /\ CallsIssued < MaxCalls
  /\ op' = [op EXCEPT ![t] = o]
  /\ elem' = [elem EXCEPT ![t] = e]
  /\ calls' = [calls EXCEPT ![t] = @ + 1]
  /\ \E outcome \in DivisionByZeroOutcomes : pc' = [pc EXCEPT ![t] = outcome]
  /\ UNCHANGED <<config, shared, res, sz, old_capacity, idx, held, added, ghost>>

AnyCapacityInit == InitState("few") \/ InitZeroCapacity

AnyCapacityNext ==
  \/ initial_capacity # 0 /\ Next
  \/ \E t \in Threads, o \in OpNames, e \in Elems(0, "few") : ZeroCapacityCall(t, o, e)

\* the sets constructed with any capacity, zero included
SpecAnyCapacity == AnyCapacityInit /\ [][AnyCapacityNext]_vars

\* C13 as stated: constructing a set with initial_capacity = 0 fails at
\* construction, so no Add, Remove or Contains is ever invoked on such a set.
C13_ZeroCapacityNeverCalled ==
  initial_capacity = 0 => \A t \in Threads : calls[t] = 0

\* a step of thread t inside a call of operation o, the call and the return
\* included
StepOf(t, o) == pc'[t] # pc[t] /\ (op[t] = o \/ op'[t] = o)

\* the first n entries of a bucket without element e, in their order
RECURSIVE WithoutUpTo(_, _, _)
WithoutUpTo(bucket, e, n) ==
  IF n = 0 THEN <<>>
  ELSE IF bucket[n] = e THEN WithoutUpTo(bucket, e, n - 1)
       ELSE Append(WithoutUpTo(bucket, e, n - 1), bucket[n])
Without(bucket, e) == WithoutUpTo(bucket, e, Len(bucket))

\* C14: no step of Contains changes the table, size, capacity or the number
\* of locks; no step of Remove changes capacity, the number of buckets or the
\* place of any element other than the one it removes.
C14_ContainsAndRemoveFrame ==
  [][\A t \in Threads :
       /\ StepOf(t, "contains") =>
            /\ UNCHANGED <<table, size, capacity, mutex_count>>
            /\ Len(mutexes') = Len(mutexes)
       /\ StepOf(t, "remove") =>
            /\ capacity' = capacity
            /\ Len(table') = Len(table)
            /\ \A b \in 1..Len(table) :
                 Without(table'[b], elem[t]) = Without(table[b], elem[t])]_vars

\* a Remove has erased its element from a bucket that holds others, while a
\* Contains call of another thread is in flight
C14_Witness ==
  \E t \in Threads, u \in Threads :
    /\ op[t] = "remove" /\ pc[t] = "count"
    /\ table[(Hash(elem[t]) % capacity) + 1] # <<>>
    /\ op[u] = "contains" /\ pc[u] # "idle"

\* the indices (from 1) of the locks of the array that thread t holds
Holds(t) == {i \in 1..Len(mutexes) : mutexes[i] = t}

RECURSIVE IsDoublingOf(_, _)
IsDoublingOf(c, n) ==
  \/ n = c
  \/ n > c /\ n % Growth = 0 /\ IsDoublingOf(c, n \div Growth)

\* C16: the striped set keeps the number of stripe locks it was constructed
\* with; capacity is that number doubled some number of times, so the bucket
\* of an element is guarded by the stripe of the element; and no two threads
\* are inside the critical section of the same bucket at once.
C16_StripedBucketExclusion ==
  variant = "striped" =>
    /\ mutex_count = initial_capacity
    /\ Len(mutexes) = initial_capacity
    /\ IsDoublingOf(initial_capacity, capacity)
    /\ \A e \in AllElems : (Hash(e) % capacity) % mutex_count = Hash(e) % mutex_count
    /\ \A t \in Threads, u \in Threads :
         (t # u /\ InCriticalSection(t) /\ InCriticalSection(u)) =>
           Hash(elem[t]) % capacity # Hash(elem[u]) % capacity

\* the table has grown to twice as many buckets as there are stripes, and two
\* threads are inside the critical sections of different buckets
C16_Witness ==
  \E t \in Threads, u \in Threads :
    /\ variant = "striped"
    /\ capacity > mutex_count /\ mutex_count > 1
    /\ t # u /\ InCriticalSection(t) /\ InCriticalSection(u)

\* the striped and the refinable set under the workload "few", any schedule
SpecConcurrent == ConcurrentInit /\ [][ConcurrentNext]_vars

\* C17: in the refinable set, whenever no resize holds the resize mutex
\* exclusively there are exactly capacity bucket locks and capacity buckets;
\* the lock array never shrinks, it grows only under the exclusive lock, and
\* a lock that existed keeps its index and its state when the array grows
\* (a lock object is identified by its index).
C17_RefinableLockArray ==
  /\ variant = "refinable" => Len(mutexes) = capacity /\ Len(table) = capacity
  /\ [][variant = "refinable" =>
          /\ writer' = NoThread => Len(mutexes') = capacity' /\ Len(table') = capacity'
          /\ Len(mutexes') >= Len(mutexes)
          /\ Len(mutexes') > Len(mutexes) =>
               /\ writer # NoThread
               /\ \A i \in 1..Len(mutexes) : mutexes'[i] = mutexes[i]]_vars

\* after a refinable resize a thread is inside the critical section of a
\* bucket whose lock the resize appended
C17_Witness ==
  \E t \in Threads :
    /\ variant = "refinable"
    /\ writer = NoThread
    /\ InCriticalSection(t)
    /\ held[t] > initial_capacity
    /\ Len(mutexes) = capacity

\* C18: in the refinable set a thread inside the critical section of Add,
\* Remove or Contains holds the resize mutex in shared mode and the lock of
\* bucket hash(e) mod capacity; while any thread holds the resize mutex in
\* shared mode no resize holds it exclusively, and only the exclusive holder
\* is at the statements of resize that change capacity, the table or the
\* locks; so no two threads are inside the critical section of one bucket.
C18_RefinableBucketExclusion ==
  variant = "refinable" =>
    /\ \A t \in Threads : InCriticalSection(t) =>
         /\ t \in readers
         /\ held[t] = BucketOf(elem[t]) + 1
         /\ mutexes[held[t]] = t
    /\ readers # {} => writer = NoThread
    /\ \A t \in Threads :
         pc[t] \in {"barrier", "rehash", "grow_locks", "exclusive_unlock"} => writer = t
    /\ \A t \in Threads, u \in Threads :
         (t # u /\ InCriticalSection(t) /\ InCriticalSection(u)) =>
           BucketOf(elem[t]) # BucketOf(elem[u])

\* two threads are inside the critical sections of two buckets of a
\* refinable set at once
C18_Witness ==
  \E t \in Threads, u \in Threads :
    /\ variant = "refinable"
    /\ t # u /\ InCriticalSection(t) /\ InCriticalSection(u)
    /\ readers = {t, u}

\* thread t holds no lock of any kind
HoldsNothing(t) ==
  /\ Holds(t) = {}
  /\ mutex # t
  /\ writer # t
  /\ t \notin readers

\* C19: a thread that is not inside a call holds no lock, and a thread at the
\* statement resize returns to (the stripe lock of Add in the striped set,
\* the shared lock of Add in the refinable set) holds no lock either,
\* whichever way resize was left.
C19_LocksReleasedOnReturn ==
  \A t \in Threads :
    /\ pc[t] = "idle" => HoldsNothing(t)
    /\ (variant = "striped" /\ pc[t] = "lock") => HoldsNothing(t)
    /\ (variant = "refinable" /\ pc[t] = "shared_lock") => HoldsNothing(t)

\* capacity has been doubled from the value an Add read in resize, and that
\* Add is about to release the exclusive lock; the other thread's Add is past
\* its threshold test and its resize, if it called it, and waits for the
\* shared lock, holding nothing
C19_Witness ==
  \E t \in Threads, u \in Threads :
    /\ variant = "refinable"
    /\ t # u /\ op[t] = "add" /\ op[u] = "add"
    /\ pc[t] = "shared_lock"
    /\ pc[u] = "exclusive_unlock"
    /\ capacity = Growth * old_capacity[u]

\* C20: the sequential set between calls, and the coarse-grained set whenever
\* its mutex is free, hold at most 4 * capacity elements.
C20_EagerLoadFactorBound ==
  /\ (variant = "sequential" /\ AllIdle) => ~OverLoaded(size, capacity)
  /\ (variant = "coarse" /\ mutex = NoThread) => ~OverLoaded(size, capacity)

\* a coarse-grained set has doubled once and has been filled up to the new
\* threshold's neighbourhood: more than 4 * initial_capacity elements, mutex free
C20_Witness ==
  /\ variant = "coarse"
  /\ mutex = NoThread
  /\ capacity = Growth * initial_capacity
  /\ OverLoaded(size, initial_capacity)

====
